---- MODULE Spec2Model ----
(***************************************************************************)
(* A model of go-graphql-handler: the HTTP entry point                     *)
(* Handler.ContextHandler (handler.go) and the persisted-query resolver    *)
(* persistedQueryCheck with its process-wide cache (a plain Go map).       *)
(*                                                                         *)
(* Every request is served by a goroutine of its own (net/http), so the    *)
(* state is the shared cache plus, per handler goroutine, its position in  *)
(* ContextHandler / persistedQueryCheck and its local values.              *)
(*                                                                         *)
(*   Spec      one request in flight at a time (handler 1 only): the       *)
(*             sequential behaviour of the code.                           *)
(*   SpecConc  NumHandlers goroutines interleaved.  The map is accessed    *)
(*             with no synchronisation, so an access that overlaps a       *)
(*             write is a data race; its outcomes (runtime fatal error,    *)
(*             lost insert, torn value) are nondeterministic choices.      *)
(***************************************************************************)
EXTENDS Integers, Sequences, FiniteSets, TLC

(***************************************************************************)
(* Bounds of the model.                                                    *)
(***************************************************************************)
NumHandlers == 2

NumHashes == 2

\* the number of requests a run of SpecConc accepts
MaxServed == 3

HashNames == <<"abc123", "unknown999", "def456", "0a1b2c">>

Hashes == {HashNames[i] : i \in 1..NumHashes}

Queries == {"{ hello }", "{ bye }"}

OpNames == {"", "Op"}

Versions == {1}

\* versions that only lookups carry: no entry is registered with one
LookupVersions == {2}

Handlers == 1..NumHandlers

(***************************************************************************)
(* Loosely typed JSON values (interface{}) as far as the resolver looks    *)
(* at them: absent/null, a string, a number (float64), anything else.      *)
(***************************************************************************)
JAbsent == [t |-> "nil", s |-> "", n |-> 0]

JStr(x) == [t |-> "string", s |-> x, n |-> 0]

JNum(x) == [t |-> "float64", s |-> "", n |-> x]

JOther == [t |-> "other", s |-> "", n |-> 0]

(***************************************************************************)
(* RequestOptions.Extensions, a map[string]interface{}:                    *)
(*   m   FALSE: the map is nil;                                            *)
(*   pq  the kind of Extensions["persistedQuery"]: "nil" (no such key, or  *)
(*       null), "map" (a JSON object), "other" (any other JSON value);     *)
(*   sha, version  the values under those keys when pq is a map.           *)
(***************************************************************************)
NilExtensions == [m |-> FALSE, pq |-> "nil", sha |-> JAbsent, version |-> JAbsent]

NoDescriptor == [m |-> TRUE, pq |-> "nil", sha |-> JAbsent, version |-> JAbsent]

BadDescriptor == [m |-> TRUE, pq |-> "other", sha |-> JAbsent, version |-> JAbsent]

Descriptor(sha, version) == [m |-> TRUE, pq |-> "map", sha |-> sha, version |-> version]

VersionValues == {JAbsent, JStr("1")} \cup {JNum(v) : v \in Versions \cup LookupVersions}

\* the version is read for a non-empty string hash only: other descriptors carry none
ExtensionValues ==
  {NilExtensions, NoDescriptor, BadDescriptor}
    \cup {Descriptor(s, JAbsent) : s \in {JAbsent, JOther, JStr("")}}
    \cup {Descriptor(JStr(k), v) : k \in Hashes, v \in VersionValues}

(***************************************************************************)
(* type RequestOptions struct (handler.go).  Variables is opaque to the    *)
(* resolver and is left out.                                               *)
(***************************************************************************)
RequestOptions ==
  [Query : {""} \cup Queries, OperationName : OpNames, Extensions : ExtensionValues,
   Persisted : BOOLEAN, HasPersistedParams : BOOLEAN]

\* &RequestOptions{}
EmptyOptions ==
  [Query |-> "", OperationName |-> "", Extensions |-> NilExtensions,
   Persisted |-> FALSE, HasPersistedParams |-> FALSE]

(***************************************************************************)
(* type CacheEntry struct, and its zero value (what cache[sha] yields for  *)
(* a key the map does not hold).                                           *)
(***************************************************************************)
CacheEntry ==
  [operationName : OpNames, query : {""} \cup Queries,
   sha256Hash : {""} \cup Hashes, version : {0} \cup Versions]

ZeroEntry == [operationName |-> "", query |-> "", sha256Hash |-> "", version |-> 0]

Fields == {"operationName", "query", "sha256Hash", "version"}

\* errors.New(...) of the lookup miss: the text of the error
PersistedQueryNotFound ==
  "{\"errors\":[{\"message\":\"PersistedQueryNotFound\",\"extensions\":{\"code\":\"PERSISTED_QUERY_NOT_FOUND\"}}]}"

(***************************************************************************)
(* An inbound HTTP request, as far as NewRequestOptions reads it.          *)
(*   method       GET, OPTIONS or POST                                     *)
(*   contentType  of a POST body                                           *)
(*   query, operationName, extensions  the parameters, in the URL query    *)
(*                string (not POST) or in the body (POST)                  *)
(*   persisted, hasPersistedParams  JSON body keys "Persisted" and         *)
(*                "HasPersistedParams" (JSON POST only)                    *)
(***************************************************************************)
ContentTypeJSON == "application/json"

ContentTypeGraphQL == "application/graphql"

ContentTypeFormURLEncoded == "application/x-www-form-urlencoded"

Requests ==
  {r \in [method : {"GET", "OPTIONS", "POST"},
          contentType : {"", ContentTypeJSON, ContentTypeGraphQL, ContentTypeFormURLEncoded},
          query : {""} \cup Queries, operationName : OpNames,
          extensions : ExtensionValues,
          persisted : BOOLEAN, hasPersistedParams : BOOLEAN] :
     /\ (r.method = "POST") <=> (r.contentType # "")
     /\ (r.contentType # ContentTypeJSON) => (~r.persisted /\ ~r.hasPersistedParams)
     /\ (r.contentType = ContentTypeGraphQL) =>
          (r.operationName = "" /\ r.extensions = NilExtensions)
     /\ (r.extensions.version.n \in LookupVersions) => (r.query = "")}

(***************************************************************************)
(* getFromForm: Query, OperationName and Extensions from form values.      *)
(* Extensions starts as make(map), so without an extensions parameter it   *)
(* is an empty, non-nil map.  The two flags are not set.                   *)
(***************************************************************************)
getFromForm(r) ==
  [Query |-> r.query, OperationName |-> r.operationName,
   Extensions |-> IF r.extensions = NilExtensions THEN NoDescriptor ELSE r.extensions,
   Persisted |-> FALSE, HasPersistedParams |-> FALSE]

(***************************************************************************)
(* NewRequestOptions.  A JSON body is unmarshalled into RequestOptions     *)
(* itself: encoding/json fills every exported field, the untagged          *)
(* Persisted and HasPersistedParams included.                              *)
(***************************************************************************)
NewRequestOptions(r) ==
  IF r.method # "POST" THEN getFromForm(r)
  ELSE IF r.contentType = ContentTypeGraphQL THEN [EmptyOptions EXCEPT !.Query = r.query]
  ELSE IF r.contentType = ContentTypeFormURLEncoded THEN getFromForm(r)
  ELSE [Query |-> r.query, OperationName |-> r.operationName,
        Extensions |-> r.extensions,
        Persisted |-> r.persisted, HasPersistedParams |-> r.hasPersistedParams]

(***************************************************************************)
(* State.                                                                  *)
(*   cache     var cache = make(map[string]CacheEntry): a function from    *)
(*             the keys the map holds to their entries                     *)
(*   pc        each handler's position:                                    *)
(*               idle     no request                                       *)
(*               check    opts parsed, persistedQueryCheck not yet run     *)
(*               lookup   at line 38, before the map read                  *)
(*               reading  inside the map read of line 38                   *)
(*               assign   at line 47, before the map write                 *)
(*               writing  inside the map write of line 47 (mapassign, then *)
(*                        the copy of the entry into its slot)             *)
(*               return   persistedQueryCheck has returned                 *)
(*               done     ContextHandler has returned                      *)
(*               panic    a type assertion panicked (the request is        *)
(*                        aborted; net/http recovers the goroutine)        *)
(*               dead     the process was ended by a runtime fatal error   *)
(*   method    r.Method                                                    *)
(*   in        opts as NewRequestOptions returned it                       *)
(*   opts      *opts, as persistedQueryCheck mutates it                    *)
(*   err       the text of the error persistedQueryCheck returned, ""      *)
(*             for nil (with an error the returned pointer is nil)         *)
(*   resp      what was written to the http.ResponseWriter                 *)
(*   executed  graphql.Do was called                                       *)
(*   pending   the fields of the new entry not yet copied into the slot    *)
(*   found     the map read located the key                                *)
(*   lost      the slot this handler's map write got is not reachable      *)
(*             under its key                                               *)
(*   fatal     the runtime's fatal error, and the keys of the two          *)
(*             accesses that collided                                      *)
(*   lastReg   history, per hash: the entry of the latest registration     *)
(*             begun (the zero entry if none), the query text that         *)
(*             registration or an earlier one last replaced by a different *)
(*             one ("" if the text never changed), and whether the latest  *)
(*             registration began while another of the same hash was       *)
(*             still being written                                         *)
(*   served    the number of requests accepted, counted in SpecConc only   *)
(*             (it bounds the runs there)                                  *)
(*   lastLookup  history: the outcome of the latest lookup-phase request   *)
(*             that was answered, until its hash is registered again;      *)
(*             recorded in SpecRetry only                                  *)
(***************************************************************************)
VARIABLES cache, pc, method, in, opts, err, resp, executed, pending, found, lost,
          fatal, lastReg, served, lastLookup

vars == <<cache, pc, method, in, opts, err, resp, executed, pending, found, lost,
          fatal, lastReg, served, lastLookup>>

NoResponse == [status |-> 0, contentType |-> "", body |-> ""]

NoFatal == [msg |-> "", a |-> "", b |-> ""]

\* no lookup on record
NoLookup == [sha |-> "", err |-> "", query |-> "", operationName |-> ""]

\* the record of the latest lookup, after a registration of hash k began
Forgotten(l, k) == IF l.sha = k THEN NoLookup ELSE l

NeverRegistered == [entry |-> ZeroEntry, prev |-> "", clash |-> FALSE]

Init ==
  /\ cache = [k \in {} |-> ZeroEntry]
  /\ pc = [h \in Handlers |-> "idle"]
  /\ method = [h \in Handlers |-> ""]
  /\ in = [h \in Handlers |-> EmptyOptions]
  /\ opts = [h \in Handlers |-> EmptyOptions]
  /\ err = [h \in Handlers |-> ""]
  /\ resp = [h \in Handlers |-> NoResponse]
  /\ executed = [h \in Handlers |-> FALSE]
  /\ pending = [h \in Handlers |-> {}]
  /\ found = [h \in Handlers |-> FALSE]
  /\ lost = [h \in Handlers |-> FALSE]
  /\ fatal = NoFatal
  /\ lastReg = [k \in Hashes |-> NeverRegistered]
  /\ served = 0
  /\ lastLookup = NoLookup

(***************************************************************************)
(* ContextHandler line 137: opts := NewRequestOptions(r).                  *)
(***************************************************************************)
Accept(h, r) ==
  /\ pc' = [pc EXCEPT ![h] = "check"]
  /\ method' = [method EXCEPT ![h] = r.method]
  /\ in' = [in EXCEPT ![h] = NewRequestOptions(r)]
  /\ opts' = [opts EXCEPT ![h] = NewRequestOptions(r)]
  /\ UNCHANGED <<cache, err, resp, executed, pending, found, lost, fatal, lastReg>>

Receive(h) ==
  /\ pc[h] = "idle"
  /\ \E r \in Requests : Accept(h, r)
  /\ UNCHANGED <<served, lastLookup>>

(***************************************************************************)
(* persistedQueryCheck up to its first map access: lines 17-37, and for a  *)
(* registration the operands of line 47's assignment, which Go evaluates   *)
(* (line 51's type assertion included) before it assigns to the map.       *)
(***************************************************************************)
\* the value of sha after line 29, for a descriptor that passes both assertions
Sha(o) == o.Extensions.sha.s

\* lines 17-33: the request is returned as it is
PassThrough(o) ==
  \/ ~o.Extensions.m
  \/ o.Extensions.pq = "nil"
  \/ o.Extensions.pq = "map" /\ o.Extensions.sha = JStr("")

\* lines 27 and 29: a failed type assertion
DescriptorPanics(o) ==
  /\ o.Extensions.m
  /\ \/ o.Extensions.pq = "other"
     \/ o.Extensions.pq = "map" /\ o.Extensions.sha.t # "string"

\* a variant of line 51 that reads the version without asserting its type
VersionNeverPanics(o) == FALSE

\* line 51: values["version"].(float64)
VersionPanics(o) == o.Extensions.version.t # "float64"

\* a variant that asserts the version's type (line 51) before line 37's test
CheckTargetVersionFirst(o) ==
  IF PassThrough(o) THEN "return"
  ELSE IF DescriptorPanics(o) THEN "panic"
  ELSE IF VersionPanics(o) THEN "panic"
  ELSE IF o.Query = "" THEN "lookup"
  ELSE "assign"

CheckTarget(o) ==
  IF PassThrough(o) THEN "return"
  ELSE IF DescriptorPanics(o) THEN "panic"
  ELSE IF o.Query = "" THEN "lookup"
  ELSE IF VersionPanics(o) THEN "panic"
  ELSE "assign"

\* a variant that sets the flag before line 31's test of the hash
CheckOptionsFlagBeforeHashTest(o) ==
  IF ~o.Extensions.m \/ o.Extensions.pq = "nil" \/ DescriptorPanics(o) THEN o
  ELSE [o EXCEPT !.HasPersistedParams = TRUE]

\* line 35
CheckOptions(o) ==
  IF PassThrough(o) \/ DescriptorPanics(o) THEN o
  ELSE [o EXCEPT !.HasPersistedParams = TRUE]

\* a variant that makes the key's slot in the map before line 51's assertion
CheckDescriptorSlotFirst(h) ==
  /\ pc[h] = "check"
  /\ pc' = [pc EXCEPT ![h] = CheckTarget(opts[h])]
  /\ opts' = [opts EXCEPT ![h] = CheckOptions(opts[h])]
  /\ cache' = IF ~PassThrough(opts[h]) /\ ~DescriptorPanics(opts[h])
                   /\ opts[h].Query # ""
                THEN [k \in DOMAIN cache \cup {Sha(opts[h])} |->
                        IF k = Sha(opts[h]) THEN ZeroEntry ELSE cache[k]]
              ELSE cache
  /\ UNCHANGED <<method, in, err, resp, executed, pending, found, lost, fatal,
                 lastReg, served, lastLookup>>

CheckDescriptor(h) ==
  /\ pc[h] = "check"
  /\ pc' = [pc EXCEPT ![h] = CheckTarget(opts[h])]
  /\ opts' = [opts EXCEPT ![h] = CheckOptions(opts[h])]
  /\ UNCHANGED <<cache, method, in, err, resp, executed, pending, found, lost,
                 fatal, lastReg, served, lastLookup>>

(***************************************************************************)
(* Line 38, cachedValue := cache[sha], in two steps: the map read locates  *)
(* the key's slot (or the zero value), then the entry is copied out of it  *)
(* and lines 39-45 run on the copy.                                        *)
(***************************************************************************)
\* a variant of line 38 that makes a slot for the key it looks up
LookupBeginMakesSlot(h) ==
  /\ pc[h] = "lookup"
  /\ pc' = [pc EXCEPT ![h] = "reading"]
  /\ found' = [found EXCEPT ![h] = Sha(opts[h]) \in DOMAIN cache]
  /\ cache' = [k \in DOMAIN cache \cup {Sha(opts[h])} |->
                IF k \in DOMAIN cache THEN cache[k] ELSE ZeroEntry]
  /\ UNCHANGED <<method, in, opts, err, resp, executed, pending, lost, fatal,
                 lastReg, served, lastLookup>>

LookupBegin(h) ==
  /\ pc[h] = "lookup"
  /\ pc' = [pc EXCEPT ![h] = "reading"]
  /\ found' = [found EXCEPT ![h] = Sha(opts[h]) \in DOMAIN cache]
  /\ UNCHANGED <<cache, method, in, opts, err, resp, executed, pending, lost, fatal,
                 lastReg, served, lastLookup>>

CachedValue(h) == IF found[h] THEN cache[Sha(opts[h])] ELSE ZeroEntry

\* lines 39-41
LookupError(cachedValue) ==
  IF cachedValue.query = "" THEN PersistedQueryNotFound ELSE ""

\* a variant of lines 42-44 that leaves out line 44
LookupFillWithoutPersisted(o, cachedValue) ==
  [o EXCEPT !.OperationName = cachedValue.operationName,
            !.Query = cachedValue.query]

\* a variant of line 42 that keeps an operationName the request brought
LookupFillKeepsOperationName(o, cachedValue) ==
  [o EXCEPT !.OperationName = IF o.OperationName # "" THEN o.OperationName
                              ELSE cachedValue.operationName,
            !.Query = cachedValue.query,
            !.Persisted = TRUE]

\* lines 42-44
LookupFill(o, cachedValue) ==
  [o EXCEPT !.OperationName = cachedValue.operationName,
            !.Query = cachedValue.query,
            !.Persisted = TRUE]

\* a variant in which a hit takes the entry out of the cache
LookupEndEvicting(h) ==
  /\ pc[h] = "reading"
  /\ pc' = [pc EXCEPT ![h] = "return"]
  /\ err' = [err EXCEPT ![h] = LookupError(CachedValue(h))]
  /\ opts' = [opts EXCEPT ![h] =
                IF LookupError(CachedValue(h)) = "" THEN LookupFill(@, CachedValue(h))
                ELSE @]
  /\ cache' = [k \in DOMAIN cache \ {Sha(opts[h])} |-> cache[k]]
  /\ UNCHANGED <<method, in, resp, executed, pending, found, lost, fatal, lastReg,
                 served, lastLookup>>

LookupEnd(h) ==
  /\ pc[h] = "reading"
  /\ pc' = [pc EXCEPT ![h] = "return"]
  /\ err' = [err EXCEPT ![h] = LookupError(CachedValue(h))]
  /\ opts' = [opts EXCEPT ![h] =
                IF LookupError(CachedValue(h)) = "" THEN LookupFill(@, CachedValue(h))
                ELSE @]
  /\ UNCHANGED <<cache, method, in, resp, executed, pending, found, lost, fatal,
                 lastReg, served, lastLookup>>

(***************************************************************************)
(* Lines 47-52, cache[sha] = CacheEntry{...}: the map write finds or       *)
(* makes the key's slot (InsertBegin), then the entry is copied into the   *)
(* slot field by field (StoreField), in an order the compiler chooses.     *)
(***************************************************************************)
\* a variant of lines 47-52 without line 50
NewEntryWithoutHash(o) ==
  [operationName |-> o.OperationName, query |-> o.Query, sha256Hash |-> "",
   version |-> o.Extensions.version.n]

NewEntry(o) ==
  [operationName |-> o.OperationName, query |-> o.Query, sha256Hash |-> Sha(o),
   version |-> o.Extensions.version.n]

\* a variant that starts a new map holding the key's slot alone
WithSlotAlone(c, k) ==
  [x \in {k} |-> IF x \in DOMAIN c THEN c[x] ELSE ZeroEntry]

WithSlot(c, k) ==
  [x \in DOMAIN c \cup {k} |-> IF x \in DOMAIN c THEN c[x] ELSE ZeroEntry]

\* the history of a hash after handler h began a registration of it
Registered(l, h) ==
  [entry |-> NewEntry(opts[h]),
   prev |-> IF l.entry.query # opts[h].Query THEN l.entry.query ELSE l.prev,
   clash |-> \E g \in Handlers \ {h} :
               pc[g] = "writing" /\ Sha(opts[g]) = Sha(opts[h])]

InsertBegin(h) ==
  /\ pc[h] = "assign"
  /\ pc' = [pc EXCEPT ![h] = "writing"]
  /\ cache' = WithSlot(cache, Sha(opts[h]))
  /\ pending' = [pending EXCEPT ![h] = Fields]
  /\ lost' = [lost EXCEPT ![h] = FALSE]
  /\ lastReg' = [lastReg EXCEPT ![Sha(opts[h])] = Registered(@, h)]
  /\ lastLookup' = Forgotten(lastLookup, Sha(opts[h]))
  /\ UNCHANGED <<method, in, opts, err, resp, executed, found, fatal, served>>

\* a variant whose entry is copied without its operationName
StoreFieldWithoutOperationName(h, f) ==
  /\ pc[h] = "writing"
  /\ f \in pending[h]
  /\ pending' = [pending EXCEPT ![h] = @ \ {f}]
  /\ cache' = IF lost[h] \/ f = "operationName" THEN cache
              ELSE [cache EXCEPT ![Sha(opts[h])][f] = NewEntry(opts[h])[f]]
  /\ pc' = [pc EXCEPT ![h] = IF pending[h] = {f} THEN "return" ELSE "writing"]
  /\ UNCHANGED <<method, in, opts, err, resp, executed, found, lost, fatal, lastReg,
                 served, lastLookup>>

StoreField(h, f) ==
  /\ pc[h] = "writing"
  /\ f \in pending[h]
  /\ pending' = [pending EXCEPT ![h] = @ \ {f}]
  /\ cache' = IF lost[h] THEN cache
              ELSE [cache EXCEPT ![Sha(opts[h])][f] = NewEntry(opts[h])[f]]
  /\ pc' = [pc EXCEPT ![h] = IF pending[h] = {f} THEN "return" ELSE "writing"]
  /\ UNCHANGED <<method, in, opts, err, resp, executed, found, lost, fatal, lastReg,
                 served, lastLookup>>

(***************************************************************************)
(* ContextHandler after persistedQueryCheck: lines 142-211.                *)
(***************************************************************************)
\* a variant of lines 142-146 without line 143
WriteErrorWithoutContentType(h) ==
  /\ pc[h] = "return"
  /\ err[h] # ""
  /\ resp' = [resp EXCEPT ![h] = [status |-> 200, contentType |-> "", body |-> err[h]]]
  /\ pc' = [pc EXCEPT ![h] = "done"]
  /\ UNCHANGED <<cache, method, in, opts, err, executed, pending, found, lost,
                 fatal, lastReg, served, lastLookup>>

\* lines 142-146; w.Write without WriteHeader sends status 200
WriteError(h) ==
  /\ pc[h] = "return"
  /\ err[h] # ""
  /\ resp' = [resp EXCEPT ![h] =
                [status |-> 200, contentType |-> "application/json", body |-> err[h]]]
  /\ pc' = [pc EXCEPT ![h] = "done"]
  /\ UNCHANGED <<cache, method, in, opts, err, executed, pending, found, lost,
                 fatal, lastReg, served, lastLookup>>

\* a variant with the method check of lines 148-151 ahead of line 140
OptionsBeforeResolver(h) ==
  /\ pc[h] = "check"
  /\ method[h] = "OPTIONS"
  /\ resp' = [resp EXCEPT ![h] = [status |-> 204, contentType |-> "", body |-> ""]]
  /\ pc' = [pc EXCEPT ![h] = "done"]
  /\ UNCHANGED <<cache, method, in, opts, err, executed, pending, found, lost,
                 fatal, lastReg, served, lastLookup>>

\* lines 148-151
Options(h) ==
  /\ pc[h] = "return"
  /\ err[h] = ""
  /\ method[h] = "OPTIONS"
  /\ resp' = [resp EXCEPT ![h] = [status |-> 204, contentType |-> "", body |-> ""]]
  /\ pc' = [pc EXCEPT ![h] = "done"]
  /\ UNCHANGED <<cache, method, in, opts, err, executed, pending, found, lost,
                 fatal, lastReg, served, lastLookup>>

\* a variant of lines 153-211 that runs although the resolver failed (lines
\* 142-146 without their return)
ExecuteDespiteError(h) ==
  /\ pc[h] = "return"
  /\ method[h] # "OPTIONS"
  /\ executed' = [executed EXCEPT ![h] = TRUE]
  /\ resp' = [resp EXCEPT ![h] =
                [status |-> 200, contentType |-> "application/json; charset=utf-8",
                 body |-> "<result>"]]
  /\ pc' = [pc EXCEPT ![h] = "done"]
  /\ UNCHANGED <<cache, method, in, opts, err, pending, found, lost, fatal, lastReg,
                 served, lastLookup>>

\* lines 153-211: graphql.Do, then the result written as JSON (the GraphiQL and
\* Playground pages, rendered by code outside these files, are not modelled)
Execute(h) ==
  /\ pc[h] = "return"
  /\ err[h] = ""
  /\ method[h] # "OPTIONS"
  /\ executed' = [executed EXCEPT ![h] = TRUE]
  /\ resp' = [resp EXCEPT ![h] =
                [status |-> 200, contentType |-> "application/json; charset=utf-8",
                 body |-> "<result>"]]
  /\ pc' = [pc EXCEPT ![h] = "done"]
  /\ UNCHANGED <<cache, method, in, opts, err, pending, found, lost, fatal, lastReg,
                 served, lastLookup>>

\* a variant in which the cache lives as long as one request
ResetWithCache(h) ==
  /\ pc[h] \in {"done", "panic"}
  /\ pc' = [pc EXCEPT ![h] = "idle"]
  /\ method' = [method EXCEPT ![h] = ""]
  /\ in' = [in EXCEPT ![h] = EmptyOptions]
  /\ opts' = [opts EXCEPT ![h] = EmptyOptions]
  /\ err' = [err EXCEPT ![h] = ""]
  /\ resp' = [resp EXCEPT ![h] = NoResponse]
  /\ executed' = [executed EXCEPT ![h] = FALSE]
  /\ pending' = [pending EXCEPT ![h] = {}]
  /\ found' = [found EXCEPT ![h] = FALSE]
  /\ lost' = [lost EXCEPT ![h] = FALSE]
  /\ cache' = [k \in {} |-> ZeroEntry]
  /\ UNCHANGED <<fatal, lastReg, served, lastLookup>>

\* the handler's goroutine ends (after its return, or after net/http recovered
\* its panic); the next request gets fresh locals
Reset(h) ==
  /\ pc[h] \in {"done", "panic"}
  /\ pc' = [pc EXCEPT ![h] = "idle"]
  /\ method' = [method EXCEPT ![h] = ""]
  /\ in' = [in EXCEPT ![h] = EmptyOptions]
  /\ opts' = [opts EXCEPT ![h] = EmptyOptions]
  /\ err' = [err EXCEPT ![h] = ""]
  /\ resp' = [resp EXCEPT ![h] = NoResponse]
  /\ executed' = [executed EXCEPT ![h] = FALSE]
  /\ pending' = [pending EXCEPT ![h] = {}]
  /\ found' = [found EXCEPT ![h] = FALSE]
  /\ lost' = [lost EXCEPT ![h] = FALSE]
  /\ UNCHANGED <<cache, fatal, lastReg, served, lastLookup>>

(***************************************************************************)
(* Spec: requests served one at a time.                                    *)
(***************************************************************************)
Step(h) ==
  \/ CheckDescriptor(h)
  \/ LookupBegin(h)
  \/ LookupEnd(h)
  \/ InsertBegin(h)
  \/ \E f \in Fields : StoreField(h, f)
  \/ WriteError(h)
  \/ Options(h)
  \/ Execute(h)
  \/ Reset(h)

Next ==
  \/ Receive(1)
  \/ Step(1)

Spec == Init /\ [][Next]_vars

(***************************************************************************)
(* SpecConc: NumHandlers goroutines, interleaved at every step.            *)
(*                                                                         *)
(* The map is read and written with no lock.  A map access that begins     *)
(* while another goroutine is inside mapassign is a data race, and what    *)
(* follows is one of: nothing special (the actions above); the runtime     *)
(* notices and ends the process with a fatal error, which no recover       *)
(* catches; or the insert goes to a slot that the map, mid-update, does    *)
(* not keep under the key.  A read that falls between two StoreField       *)
(* steps of a write to the same key copies a half-written entry.           *)
(***************************************************************************)
\* g is inside mapassign: its slot is chosen and nothing is copied yet
InMapassign(g) == pc[g] = "writing" /\ pending[g] = Fields

Killed == [h \in Handlers |-> "dead"]

\* mapassign finds the map's writing flag set: fatal("concurrent map writes")
FatalConcurrentWrites(h) ==
  /\ pc[h] = "assign"
  /\ \E g \in Handlers \ {h} :
       /\ InMapassign(g)
       /\ fatal' = [msg |-> "concurrent map writes",
                    a |-> Sha(opts[h]), b |-> Sha(opts[g])]
  /\ pc' = Killed
  /\ UNCHANGED <<cache, method, in, opts, err, resp, executed, pending, found, lost,
                 lastReg, served, lastLookup>>

\* the map read finds the writing flag set:
\* fatal("concurrent map read and map write")
FatalReadWrite(h) ==
  /\ pc[h] = "lookup"
  /\ \E g \in Handlers \ {h} :
       /\ InMapassign(g)
       /\ fatal' = [msg |-> "concurrent map read and map write",
                    a |-> Sha(opts[h]), b |-> Sha(opts[g])]
  /\ pc' = Killed
  /\ UNCHANGED <<cache, method, in, opts, err, resp, executed, pending, found, lost,
                 lastReg, served, lastLookup>>

\* two overlapping inserts of new keys: this one's slot is not kept
LostInsert(h) ==
  /\ pc[h] = "assign"
  /\ Sha(opts[h]) \notin DOMAIN cache
  /\ \E g \in Handlers \ {h} : InMapassign(g) /\ Sha(opts[g]) # Sha(opts[h])
  /\ pc' = [pc EXCEPT ![h] = "writing"]
  /\ pending' = [pending EXCEPT ![h] = Fields]
  /\ lost' = [lost EXCEPT ![h] = TRUE]
  /\ lastReg' = [lastReg EXCEPT ![Sha(opts[h])] = Registered(@, h)]
  /\ lastLookup' = Forgotten(lastLookup, Sha(opts[h]))
  /\ UNCHANGED <<cache, method, in, opts, err, resp, executed, found, fatal,
                 served>>

\* the requests of the concurrent runs: registrations and lookups of every
\* hash, sent by POST as JSON, and the lookups also by OPTIONS
ConcRequests ==
  {r \in Requests :
     /\ r.method = "OPTIONS" \/ r.contentType = ContentTypeJSON
     /\ r.method = "OPTIONS" => r.query = ""
     /\ ~r.persisted /\ ~r.hasPersistedParams
     /\ r.extensions \in {Descriptor(JStr(k), JNum(1)) : k \in Hashes}
     /\ (r.query = "") => (r.operationName = "")}

ReceiveBounded(h) ==
  /\ pc[h] = "idle"
  /\ served < MaxServed
  /\ \E r \in ConcRequests : Accept(h, r)
  /\ served' = served + 1
  /\ UNCHANGED lastLookup

NextConc ==
  \E h \in Handlers :
    \/ ReceiveBounded(h)
    \/ Step(h)
    \/ FatalConcurrentWrites(h)
    \/ FatalReadWrite(h)
    \/ LostInsert(h)

SpecConc == Init /\ [][NextConc]_vars

(***************************************************************************)
(* The phases of a request, read off opts as NewRequestOptions returned    *)
(* it, and the positions after persistedQueryCheck returned.               *)
(***************************************************************************)
\* a persistedQuery descriptor with a non-empty string hash
HasHash(o) == ~PassThrough(o) /\ ~DescriptorPanics(o)

\* lookup phase: non-empty hash, empty query
IsLookup(o) == HasHash(o) /\ o.Query = ""

\* registration phase: non-empty hash, non-empty query, numeric version
IsRegistration(o) == HasHash(o) /\ o.Query # "" /\ ~VersionPanics(o)

Returned(h) == pc[h] \in {"return", "done"}

(***************************************************************************)
(* SpecRetry: requests served one at a time, as in Spec, with the outcome  *)
(* of each answered lookup kept on record when its handler ends, so that   *)
(* the next lookup of the same hash can be compared with it.               *)
(***************************************************************************)
\* what ContextHandler got back from persistedQueryCheck for a lookup
Outcome(h) ==
  [sha |-> Sha(in[h]), err |-> err[h],
   query |-> IF err[h] = "" THEN opts[h].Query ELSE "",
   operationName |-> IF err[h] = "" THEN opts[h].OperationName ELSE ""]

\* Reset, keeping the outcome of a lookup on record
Finish(h) ==
  /\ pc[h] \in {"done", "panic"}
  /\ pc' = [pc EXCEPT ![h] = "idle"]
  /\ method' = [method EXCEPT ![h] = ""]
  /\ in' = [in EXCEPT ![h] = EmptyOptions]
  /\ opts' = [opts EXCEPT ![h] = EmptyOptions]
  /\ err' = [err EXCEPT ![h] = ""]
  /\ resp' = [resp EXCEPT ![h] = NoResponse]
  /\ executed' = [executed EXCEPT ![h] = FALSE]
  /\ pending' = [pending EXCEPT ![h] = {}]
  /\ found' = [found EXCEPT ![h] = FALSE]
  /\ lost' = [lost EXCEPT ![h] = FALSE]
  /\ lastLookup' = IF pc[h] = "done" /\ IsLookup(in[h]) THEN Outcome(h) ELSE lastLookup
  /\ UNCHANGED <<cache, fatal, lastReg, served>>

NextRetry ==
  \/ Receive(1)
  \/ CheckDescriptor(1)
  \/ LookupBegin(1)
  \/ LookupEnd(1)
  \/ InsertBegin(1)
  \/ \E f \in Fields : StoreField(1, f)
  \/ WriteError(1)
  \/ Options(1)
  \/ Execute(1)
  \/ Finish(1)

SpecRetry == Init /\ [][NextRetry]_vars

(***************************************************************************)
(* C1.  After a registration (h, q), q non-empty, a later lookup of h (no  *)
(* other registration of h in between) returns without error, with query   *)
(* q and persisted = true.                                                 *)
(***************************************************************************)
C1_RegisterThenLookup ==
  \A h \in Handlers :
    (/\ Returned(h)
     /\ IsLookup(in[h])
     /\ lastReg[Sha(in[h])].entry # ZeroEntry)
    => /\ err[h] = ""
       /\ opts[h].Query = lastReg[Sha(in[h])].entry.query
       /\ opts[h].Query # ""
       /\ opts[h].Persisted = TRUE

C1_Witness ==
  \E h \in Handlers :
    /\ pc[h] = "return"
    /\ IsLookup(in[h])
    /\ ~in[h].Persisted
    /\ lastReg[Sha(in[h])].entry.query = "{ hello }"
    /\ opts[h].Query = "{ hello }"
    /\ opts[h].Persisted

(***************************************************************************)
(* C2.  A lookup of a hash that was never registered fails with the        *)
(* PersistedQueryNotFound error, and the handler writes exactly the error  *)
(* body of the wire contract, with Content-Type application/json, and      *)
(* nothing else (no query is executed).                                    *)
(***************************************************************************)
C2_LookupMiss ==
  \A h \in Handlers :
    (/\ Returned(h)
     /\ IsLookup(in[h])
     /\ lastReg[Sha(in[h])].entry = ZeroEntry)
    => /\ err[h] =
            "{\"errors\":[{\"message\":\"PersistedQueryNotFound\",\"extensions\":{\"code\":\"PERSISTED_QUERY_NOT_FOUND\"}}]}"
       /\ ~executed[h]
       /\ pc[h] = "done" =>
            resp[h] =
              [status |-> 200, contentType |-> "application/json",
               body |-> "{\"errors\":[{\"message\":\"PersistedQueryNotFound\",\"extensions\":{\"code\":\"PERSISTED_QUERY_NOT_FOUND\"}}]}"]

C2_Witness ==
  \E h \in Handlers :
    /\ pc[h] = "done"
    /\ IsLookup(in[h])
    /\ Sha(in[h]) = "unknown999"
    /\ lastReg["unknown999"].entry = ZeroEntry
    /\ lastReg["abc123"].entry # ZeroEntry
    /\ resp[h].body = PersistedQueryNotFound

(***************************************************************************)
(* C3.  N handlers concurrently registering N pairwise distinct hashes:    *)
(* under every interleaving all calls complete normally (the process is    *)
(* not ended by two overlapping writes of distinct keys) and afterwards    *)
(* every hash resolves to the entry registered under it: once no write of  *)
(* a hash is in progress, the cache holds the entry of its latest          *)
(* registration (registrations of one hash that overlap each other are     *)
(* left aside: there the later write wins).                                *)
(***************************************************************************)
C3_ConcurrentRegistrations ==
  /\ ~(fatal.msg = "concurrent map writes" /\ fatal.a # fatal.b)
  /\ fatal = NoFatal =>
       \A k \in Hashes :
         (/\ lastReg[k].entry # ZeroEntry
          /\ ~lastReg[k].clash
          /\ ~\E g \in Handlers : pc[g] = "writing" /\ Sha(opts[g]) = k)
         => (k \in DOMAIN cache /\ cache[k] = lastReg[k].entry)

(***************************************************************************)
(* C4.  A lookup of h concurrent with a registration of the same h sees    *)
(* the state before the registration or the complete new entry: it never   *)
(* copies the entry out of its slot while the registration is part-way     *)
(* through writing it, and the two accesses never collide as a data race   *)
(* (which the runtime ends with a fatal error).                            *)
(***************************************************************************)
PartlyWritten(k) ==
  \E g \in Handlers :
    /\ pc[g] = "writing"
    /\ Sha(opts[g]) = k
    /\ ~lost[g]
    /\ pending[g] # Fields

C4_LookupDuringRegistration ==
  /\ [](~(fatal.msg = "concurrent map read and map write" /\ fatal.a = fatal.b))
  /\ [][\A h \in Handlers :
          (pc[h] = "reading" /\ pc'[h] = "return" /\ found[h])
          => ~PartlyWritten(Sha(opts[h]))]_vars

(***************************************************************************)
(* C5.  Access to the cache is mutually exclusive per operation: no        *)
(* handler is in the middle of a cache insert while another handler is in  *)
(* the middle of a cache insert or a cache lookup.                         *)
(***************************************************************************)
C5_MutualExclusion ==
  \A h, g \in Handlers :
    (h # g /\ pc[h] = "writing") => pc[g] \notin {"writing", "reading"}

(***************************************************************************)
(* C6.  graphql.Do is invoked only if persistedQueryCheck returned no      *)
(* error; when the resolver fails, the handler writes the error as the     *)
(* response body and returns without executing a query.                    *)
(***************************************************************************)
C6_NoExecutionAfterError ==
  \A h \in Handlers :
    /\ executed[h] => err[h] = ""
    /\ (pc[h] = "done" /\ err[h] # "") => (resp[h].body = err[h] /\ ~executed[h])

C6_Witness ==
  \E h \in Handlers :
    /\ pc[h] = "done"
    /\ method[h] = "POST"
    /\ err[h] # ""
    /\ resp[h].body = err[h]
    /\ ~executed[h]

C8_LastWriteWins ==
  \A h \in Handlers :
    /\ (Returned(h) /\ IsRegistration(in[h])) => err[h] = ""
    /\ (/\ Returned(h)
        /\ IsLookup(in[h])
        /\ lastReg[Sha(in[h])].prev # "")
       => /\ err[h] = ""
          /\ opts[h].Query = lastReg[Sha(in[h])].entry.query
          /\ opts[h].Query # lastReg[Sha(in[h])].prev
          /\ opts[h].OperationName = lastReg[Sha(in[h])].entry.operationName

C8_Witness ==
  \E h \in Handlers :
    /\ pc[h] = "return"
    /\ IsLookup(in[h])
    /\ lastReg[Sha(in[h])].prev = "{ hello }"
    /\ lastReg[Sha(in[h])].entry.operationName = "Op"
    /\ opts[h].Query = "{ bye }"
    /\ opts[h].OperationName = "Op"

(***************************************************************************)
(* C9.  A registration (hash h, query q, numeric version v) stores under   *)
(* h an entry holding the request's operationName, q, h and v, and is      *)
(* returned with no error, query and operationName unchanged,              *)
(* hasPersistedParams = true and persisted = false.                        *)
(***************************************************************************)
C9_Registration ==
  \A h \in Handlers :
    (Returned(h) /\ IsRegistration(in[h]))
    => /\ Sha(in[h]) \in DOMAIN cache
       /\ cache[Sha(in[h])] =
            [operationName |-> in[h].OperationName, query |-> in[h].Query,
             sha256Hash |-> Sha(in[h]), version |-> in[h].Extensions.version.n]
       /\ err[h] = ""
       /\ opts[h].Query = in[h].Query
       /\ opts[h].OperationName = in[h].OperationName
       /\ opts[h].HasPersistedParams = TRUE
       /\ opts[h].Persisted = FALSE

(***************************************************************************)
(* C10.  For every request returned without error: hasPersistedParams is   *)
(* true exactly when the request carried a descriptor with a non-empty     *)
(* hash, and persisted is true exactly when it arrived with a non-empty    *)
(* hash and an empty query (its query text then came from the cache).      *)
(***************************************************************************)
C10_OutputFlags ==
  \A h \in Handlers :
    (Returned(h) /\ err[h] = "")
    => /\ opts[h].HasPersistedParams <=> HasHash(in[h])
       /\ opts[h].Persisted <=> IsLookup(in[h])

(***************************************************************************)
(* C11.  A lookup-phase call (non-empty hash, empty query) leaves the      *)
(* cache as it was, on a hit and on a miss: no step of a request in its    *)
(* lookup phase changes the cache, and every step that changes the cache   *)
(* is a step of a registration-phase request at lines 47-52.               *)
(***************************************************************************)
C11_LookupKeepsCache ==
  [][/\ \A h \in Handlers :
          (IsLookup(in[h]) /\ pc[h] # "idle" /\ pc'[h] # pc[h]) => cache' = cache
     /\ (cache' # cache)
        => \E h \in Handlers :
             /\ IsRegistration(in[h])
             /\ pc[h] \in {"assign", "writing"}
             /\ pc'[h] # pc[h] \/ pending'[h] # pending[h]]_vars

\* a lookup has missed and returned while the cache holds the other hashes
C11_Witness ==
  \E h \in Handlers :
    /\ Returned(h)
    /\ IsLookup(in[h])
    /\ err[h] = PersistedQueryNotFound
    /\ DOMAIN cache = Hashes \ {Sha(in[h])}

(***************************************************************************)
(* C12.  The cache never loses a key: no step removes a key from the cache *)
(* or empties the query of an entry, and so, once a registration of a hash *)
(* has returned, no later lookup of that hash fails with                   *)
(* PersistedQueryNotFound, whatever requests came in between.              *)
(***************************************************************************)
C12_NoEviction ==
  /\ [][\A k \in DOMAIN cache :
          /\ k \in DOMAIN cache'
          /\ cache[k].query # "" => cache'[k].query # ""]_vars
  /\ [](\A h \in Handlers :
          (/\ pc[h] \in {"reading", "return", "done"}
           /\ IsLookup(in[h])
           /\ lastReg[Sha(in[h])].entry # ZeroEntry)
          => /\ pc[h] = "reading" => found[h]
             /\ err[h] # PersistedQueryNotFound)

\* every hash has been registered and registered again with another query, and
\* a lookup has been answered with the stored query
C12_Witness ==
  \E h \in Handlers :
    /\ pc[h] = "done"
    /\ IsLookup(in[h])
    /\ DOMAIN cache = Hashes
    /\ \A k \in Hashes : lastReg[k].prev # ""
    /\ opts[h].Query = cache[Sha(in[h])].query

(***************************************************************************)
(* C13.  On a lookup hit the returned operationName is the one the most    *)
(* recent registration of the hash stored, whatever operationName the      *)
(* lookup request carried; a stored empty name replaces a non-empty one.   *)
(***************************************************************************)
C13_StoredOperationName ==
  \A h \in Handlers :
    (Returned(h) /\ IsLookup(in[h]) /\ err[h] = "")
    => /\ lastReg[Sha(in[h])].entry # ZeroEntry
       /\ opts[h].OperationName = lastReg[Sha(in[h])].entry.operationName

\* a lookup that carried an operationName hit an entry stored without one
C13_Witness ==
  \E h \in Handlers :
    /\ Returned(h)
    /\ IsLookup(in[h])
    /\ err[h] = ""
    /\ in[h].OperationName # ""
    /\ lastReg[Sha(in[h])].entry.operationName = ""
    /\ opts[h].OperationName = ""

(***************************************************************************)
(* C14, as stated.  A descriptor with a non-empty hash and a missing or    *)
(* non-numeric version is turned down when the request is decoded, so the  *)
(* resolver never runs on one, and persistedQueryCheck never faults on a   *)
(* descriptor that has a non-empty string hash.                            *)
(***************************************************************************)
C14_VersionRejectedAtDecode ==
  \A h \in Handlers :
    /\ (pc[h] # "idle" /\ HasHash(in[h])) => ~VersionPanics(in[h])
    /\ (pc[h] = "panic") => ~HasHash(in[h])

(***************************************************************************)
(* C14, amended.  Decoding passes a missing or non-numeric version on to   *)
(* the resolver.  On a registration (non-empty query) persistedQueryCheck  *)
(* itself panics at line 51's type assertion, with HasPersistedParams      *)
(* already set and no error value returned; on a lookup (empty query) the  *)
(* version is never read and the call does not fault.                      *)
(***************************************************************************)
C14_VersionAssertedOnRegistration ==
  \A h \in Handlers :
    (/\ pc[h] \notin {"idle", "check"}
     /\ HasHash(in[h])
     /\ in[h].Extensions.version.t \in {"nil", "string"})
    => /\ (in[h].Query # "")
          => (pc[h] = "panic" /\ err[h] = "" /\ opts[h].HasPersistedParams)
       /\ (in[h].Query = "") => (pc[h] # "panic")

\* a registration whose version is a string has panicked in the resolver
C14_Witness ==
  \E h \in Handlers :
    /\ pc[h] = "panic"
    /\ HasHash(in[h])
    /\ in[h].Query # ""
    /\ in[h].Extensions.version.t = "string"

(***************************************************************************)
(* The outcome of persistedQueryCheck on a lookup-phase request o against  *)
(* the cache c, lines 17-45 run in one piece: a fault, or the error and    *)
(* the returned query and operationName.                                   *)
(***************************************************************************)
LookupOutcome(o, c) ==
  LET cachedValue == IF Sha(o) \in DOMAIN c THEN c[Sha(o)] ELSE ZeroEntry
      filled == LookupFill(CheckOptions(o), cachedValue)
  IN  IF CheckTarget(o) # "lookup"
        THEN [fault |-> TRUE, err |-> "", query |-> "", operationName |-> ""]
      ELSE IF LookupError(cachedValue) # ""
        THEN [fault |-> FALSE, err |-> LookupError(cachedValue),
              query |-> "", operationName |-> ""]
      ELSE [fault |-> FALSE, err |-> "",
            query |-> filled.Query, operationName |-> filled.OperationName]

\* the request o with another version value in its descriptor
WithVersion(o, v) == [o EXCEPT !.Extensions.version = v]

(***************************************************************************)
(* C15.  The outcome of a lookup of hash h does not depend on the version  *)
(* in the lookup's descriptor: against the same cache, the same lookup     *)
(* with any other version value (absent, a string, another number) has the *)
(* same outcome: the same error or the same query and operationName.       *)
(***************************************************************************)
C15_VersionIrrelevantToLookup ==
  \A h \in Handlers :
    (Returned(h) /\ IsLookup(in[h]))
    => /\ LookupOutcome(in[h], cache) =
            [fault |-> FALSE, err |-> err[h],
             query |-> IF err[h] = "" THEN opts[h].Query ELSE "",
             operationName |-> IF err[h] = "" THEN opts[h].OperationName ELSE ""]
       /\ \A v \in VersionValues :
            LookupOutcome(WithVersion(in[h], v), cache) = LookupOutcome(in[h], cache)

\* a lookup whose version is a number other than the registered one has hit
C15_Witness ==
  \E h \in Handlers :
    /\ Returned(h)
    /\ IsLookup(in[h])
    /\ err[h] = ""
    /\ in[h].Extensions.version.t = "float64"
    /\ in[h].Extensions.version.n # cache[Sha(in[h])].version
    /\ opts[h].Query = cache[Sha(in[h])].query

(***************************************************************************)
(* C16.  A lookup of hash h repeated with no registration of h in between  *)
(* has the same outcome as the lookup before it: both fail with            *)
(* PersistedQueryNotFound, or both succeed with the same query and         *)
(* operationName.                                                          *)
(***************************************************************************)
C16_RepeatedLookup ==
  \A h \in Handlers :
    (Returned(h) /\ IsLookup(in[h]) /\ lastLookup.sha = Sha(in[h]))
    => Outcome(h) = lastLookup

\* with every hash registered, a lookup has hit for the second time and has
\* returned the stored operationName, not the one it carried
C16_Witness ==
  \E h \in Handlers :
    /\ Returned(h)
    /\ IsLookup(in[h])
    /\ lastLookup.sha = Sha(in[h])
    /\ err[h] = ""
    /\ lastLookup.query = opts[h].Query
    /\ in[h].OperationName # lastLookup.operationName
    /\ DOMAIN cache = Hashes

(***************************************************************************)
(* C17.  Every cache entry is stored under a non-empty key, its sha256Hash *)
(* field equals that key and its query field is non-empty (an entry whose  *)
(* assignment at line 47 is under way is looked at once the assignment is  *)
(* complete); and a lookup reports PersistedQueryNotFound exactly when the *)
(* cache holds no entry for its hash.                                      *)
(***************************************************************************)
C17_EntriesWellFormed ==
  /\ "" \notin DOMAIN cache
  /\ \A k \in DOMAIN cache :
       (\A h \in Handlers : ~(pc[h] = "writing" /\ Sha(opts[h]) = k))
       => /\ cache[k].sha256Hash = k
          /\ cache[k].query # ""
          /\ cache[k] \in CacheEntry
  /\ \A h \in Handlers :
       (Returned(h) /\ IsLookup(in[h]))
       => (err[h] = PersistedQueryNotFound <=> Sha(in[h]) \notin DOMAIN cache)

\* every hash is registered, no assignment is under way, and a lookup has hit
C17_Witness ==
  \E h \in Handlers :
    /\ DOMAIN cache = Hashes
    /\ \A k \in Hashes : cache[k].sha256Hash = k /\ cache[k].query # ""
    /\ Returned(h)
    /\ IsLookup(in[h])
    /\ err[h] = ""

(***************************************************************************)
(* C18.  A call of persistedQueryCheck that aborts with a type-assertion   *)
(* panic (persistedQuery not an object, sha256Hash not a string, version   *)
(* missing or not a number on a registration) leaves the cache unchanged:  *)
(* the panic comes before any map access, and afterwards the cache holds   *)
(* exactly what the registrations that returned put there.                 *)
(***************************************************************************)
C18_PanicKeepsCache ==
  /\ [][\A h \in Handlers :
          (pc'[h] = "panic" /\ pc[h] # "panic")
          => (pc[h] = "check" /\ cache' = cache)]_vars
  /\ [](\A h \in Handlers :
          (pc[h] = "panic")
          => /\ DOMAIN cache = {k \in Hashes : lastReg[k].entry # ZeroEntry}
             /\ \A k \in DOMAIN cache : cache[k] = lastReg[k].entry)

\* a registration without a numeric version has panicked; its hash is in the
\* cache with the query of an earlier registration, not its own
C18_Witness ==
  \E h \in Handlers :
    /\ pc[h] = "panic"
    /\ HasHash(in[h])
    /\ in[h].Query # ""
    /\ Sha(in[h]) \in DOMAIN cache
    /\ cache[Sha(in[h])].query # in[h].Query

(***************************************************************************)
(* C19.  A registration of hash h changes the cache under key h only: for  *)
(* every other hash g, each step of lines 47-52 leaves g's entry, or its   *)
(* absence, as it was.                                                     *)
(***************************************************************************)
C19_RegistrationFrame ==
  [][\A h \in Handlers :
       (/\ pc[h] \in {"assign", "writing"}
        /\ pc'[h] # pc[h] \/ pending'[h] # pending[h])
       => \A g \in Hashes \ {Sha(opts[h])} :
            /\ g \in DOMAIN cache <=> g \in DOMAIN cache'
            /\ (g \in DOMAIN cache /\ g \in DOMAIN cache') => cache'[g] = cache[g]]_vars

\* a registration has replaced the entry of its hash and returned, and the
\* cache holds the other hashes' entries as they were registered
C19_Witness ==
  \E h \in Handlers :
    /\ Returned(h)
    /\ IsRegistration(in[h])
    /\ lastReg[Sha(in[h])].prev # ""
    /\ cache[Sha(in[h])] = NewEntry(in[h])
    /\ DOMAIN cache = Hashes
    /\ \A g \in Hashes \ {Sha(in[h])} : cache[g] = lastReg[g].entry

(***************************************************************************)
(* C20.  ContextHandler runs the resolver before it looks at the method.   *)
(* An OPTIONS request is answered only after persistedQueryCheck returned; *)
(* one that carries a hash and query text has its entry in the cache when  *)
(* the resolver returns and is then answered 204; one whose lookup misses  *)
(* is answered with the PersistedQueryNotFound body (status 200), not 204; *)
(* no OPTIONS request is executed.                                         *)
(***************************************************************************)
C20_ResolverBeforeMethodCheck ==
  \A h \in Handlers :
    (method[h] = "OPTIONS")
    => /\ (resp[h] # NoResponse) => (pc[h] = "done")
       /\ (resp[h].status = 204) => (err[h] = "")
       /\ ~executed[h]
       /\ (Returned(h) /\ IsRegistration(in[h]))
          => /\ Sha(in[h]) \in DOMAIN cache
             /\ cache[Sha(in[h])] = NewEntry(in[h])
             /\ (pc[h] = "done") => (resp[h].status = 204)
       /\ (pc[h] = "done" /\ IsLookup(in[h]) /\ Sha(in[h]) \notin DOMAIN cache)
          => resp[h] = [status |-> 200, contentType |-> "application/json",
                        body |-> PersistedQueryNotFound]

\* an OPTIONS request with a hash and query text was answered 204 and its
\* entry is in the cache
C20_Witness ==
  \E h \in Handlers :
    /\ pc[h] = "done"
    /\ method[h] = "OPTIONS"
    /\ IsRegistration(in[h])
    /\ resp[h].status = 204
    /\ cache[Sha(in[h])] = NewEntry(in[h])

====
